---- MODULE Spec2Model ----
(***************************************************************************)
(* Model of the incremental ingestion pipeline of backbone_crawler.py:     *)
(*   - DailyQueueManager: the partition cursor over url_list.txt and       *)
(*     queue_state.json (get_next_partition, increment_state);             *)
(*   - P4NScraper._load_existing / _upsert_and_save: the merge-upsert      *)
(*     store over the dataset CSV;                                         *)
(*   - P4NScraper.start, extract_atomic, analyze_with_ai: one run, from    *)
(*     the command line over discovery, staleness filter, extraction and   *)
(*     enrichment to the merge step, the summary and the cursor advance.   *)
(* Each component has its own specification over the shared variables:     *)
(* SpecCursor and FairSpecCursorGrow for the cursor, SpecStore and         *)
(* SpecStoreLeftover for the store, SpecRun for a run and SpecEnrich for   *)
(* one call of analyze_with_ai with its retries.                           *)
(***************************************************************************)
EXTENDS Integers, Sequences, FiniteSets, TLC

\* ------------------------------------------------------------------ bounds
\* Longest URL list file (lines, blank ones included) the environment builds.
MaxLines == 4
\* Largest --batch_size a run is started with.
MaxBatchSize == 2
\* Most rows one process appends to processed_batch.
MaxBatch == 1
\* Most processes (runs) started one after the other.
MaxProcs == 2

VARIABLES
    \* --- partition cursor ---
    url_file,      \* url_list.txt: [exists, lines]; a line is 0 (blank) or a URL id
    state_file,    \* queue_state.json: [exists, valid, json, current_index]
    pc,            \* position of the run inside P4NScraper.start
    batch_size,    \* self.batch_size of the running process
    partition,     \* what get_next_partition returned: [urls, position, total]
    last_inc,      \* what the last increment_state did: [wrote, n] (observation only)
    win,           \* window of consecutive completed runs (observation only)
    \* --- merge-upsert store ---
    csv_file,        \* the dataset CSV: [exists, header, rows]
    existing_df,     \* self.existing_df, loaded by __init__
    processed_batch, \* self.processed_batch
    now,             \* the wall clock datetime.now() reads
    spc,             \* "idle" (no process), "running" or "saved" (after _upsert_and_save)
    log_initialized, \* PipelineLogger._initialized
    log_file,        \* pipeline_execution.log: the event types written
    procs,           \* number of processes started so far
    file_before,     \* csv_file as the last _upsert_and_save found it (observation only)
    last_save,       \* path and batch of the last _upsert_and_save (observation only)
    repeated,        \* the last call and the one before it both wrote, on the primary
                     \* path, the same batch (observation only)
    \* --- one run of P4NScraper.start ---
    site,            \* the place ids of the links the pages of the site show
    opts,            \* the command line: [mode, force]
    stage,           \* position of start() between the partition and the cursor advance
    discovered,      \* the candidates of the run: [id, verdict] in the order of the loop
    tasks,           \* the extract_atomic coroutines of the run
    stats,           \* self.stats
    pending_exc,     \* an exception is propagating out of start() behind its finally
    summary          \* the counters the run summary printed

cursor_vars == <<url_file, state_file, pc, batch_size, partition, last_inc, win>>
store_vars == <<csv_file, existing_df, processed_batch, now, spc, log_initialized,
                log_file, procs, file_before, last_save, repeated>>
run_vars == <<site, opts, stage, discovered, tasks, stats, pending_exc, summary>>
vars == <<cursor_vars, store_vars, run_vars>>

\* =====================================================================
\* DailyQueueManager
\* =====================================================================

\* urls = [line.strip() for line in f if line.strip()]
NonBlank(l) == l # 0
UrlsKeepBlank(f) == IF f.exists THEN f.lines ELSE <<>>
Urls(f) == IF f.exists THEN SelectSeq(f.lines, NonBlank) ELSE <<>>

\* state = {"current_index": 0}; replaced by the file's content when the file
\* exists and parses; state.get("current_index", 0)
StoredIndex(sf) == IF sf.exists /\ sf.valid THEN sf.current_index ELSE 0

\* What json.load returned when the file parsed (json): "object", an object
\* with a number as current_index; "list", a value without .get (an array, a
\* number, a string), on which state.get raises AttributeError; "text_index",
\* an object whose current_index is a string, on which the comparison of
\* line 112 and the addition of line 144 raise TypeError.
StateRaises(sf) == sf.exists /\ sf.valid /\ sf.json # "object"

\* start_idx = state.get(...); if start_idx >= len(urls): start_idx = 0
StartIdx(c, n) == IF c >= n THEN 0 ELSE c

\* for i in range(batch_size): curr = (start_idx + i) % len(urls)
TargetUrls(urls, start, b) ==
    [i \in 1..b |-> urls[((start + (i - 1)) % Len(urls)) + 1]]

\* (state.get("current_index", 0) + batch_size) % len(urls)
NextIndexNoWrap(c, b, n) == c + b
NextIndexStuck(c, b, n) == c % n
NextIndex(c, b, n) == (c + b) % n

NoPartition == [urls |-> <<>>, position |-> 0, total |-> 0]

\* P4NScraper(batch_size = b).start() in queue mode (no --dev, --url, --search_url)
StartRun(b) ==
    /\ pc = "idle"
    /\ pc' = "started"
    /\ batch_size' = b
    /\ partition' = NoPartition
    /\ UNCHANGED <<url_file, state_file, last_inc, win, store_vars, run_vars>>

GetNextPartition ==
    /\ pc = "started"
    /\ LET urls == Urls(url_file)
           start == StartIdx(StoredIndex(state_file), Len(urls))
       IN  IF urls = <<>>
           THEN /\ pc' = "loaded"
                /\ partition' = NoPartition
           ELSE IF StateRaises(state_file)
           THEN /\ pc' = "raised"
                /\ UNCHANGED partition
           ELSE /\ pc' = "loaded"
                /\ partition' = [urls |-> TargetUrls(urls, start, batch_size),
                                 position |-> start + 1,
                                 total |-> Len(urls)]
    /\ UNCHANGED <<url_file, state_file, batch_size, last_inc, win, store_vars, run_vars>>

\* ---- observation of consecutive completed runs (no effect on the program) ----
\* A window collects the completed runs made with one batch size over a list of
\* one length: the cursor found by its first run (c0), the number of runs, how
\* often each list index was served, and the cursor stored by its last run (c1).
NoWindow == [n |-> 0, b |-> 0, c0 |-> 0, runs |-> 0, served |-> <<>>, c1 |-> 0]

\* served counts after a run that served b indices from start index s
Serve(served, s, b) ==
    [i \in 1..Len(served) |->
        served[i] + Cardinality({j \in 0..(b - 1) : ((s + j) % Len(served)) + 1 = i})]

Observe(w, c0, s, n, b, n1, c1) ==
    IF n = 0 \/ n1 # n
    THEN NoWindow
    ELSE IF w.n = n /\ w.b = b /\ w.runs < n
         THEN [w EXCEPT !.runs = w.runs + 1, !.served = Serve(w.served, s, b),
                        !.c1 = c1]
         ELSE [n |-> n, b |-> b, c0 |-> c0, runs |-> 1,
               served |-> Serve([i \in 1..n |-> 0], s, b), c1 |-> c1]

\* increment_state(self.batch_size), the last statement of start(). The
\* discovery, extraction, merge and summary steps lie between the two calls.
IncrementState ==
    /\ pc = "loaded"
    /\ LET urls == Urls(url_file)
           n == Len(urls)
           c == StoredIndex(state_file)
       IN  IF n = 0
           THEN /\ UNCHANGED state_file
                /\ last_inc' = [wrote |-> FALSE, n |-> n]
                /\ win' = NoWindow
                /\ pc' = "advanced"
           ELSE IF StateRaises(state_file)
           THEN /\ UNCHANGED state_file
                /\ last_inc' = [wrote |-> FALSE, n |-> n]
                /\ win' = NoWindow
                /\ pc' = "raised"
           ELSE LET c1 == NextIndex(c, batch_size, n)
                IN  /\ state_file' = [exists |-> TRUE, valid |-> TRUE,
                                      json |-> "object", current_index |-> c1]
                    /\ last_inc' = [wrote |-> TRUE, n |-> n]
                    /\ win' = Observe(win, c, partition.position - 1,
                                      partition.total, batch_size, n, c1)
                    /\ pc' = "advanced"
    /\ UNCHANGED <<url_file, batch_size, partition, store_vars, run_vars>>

Exit ==
    /\ pc = "advanced"
    /\ pc' = "idle"
    /\ UNCHANGED <<url_file, state_file, batch_size, partition, last_inc, win, store_vars, run_vars>>

\* ---- the environment edits url_list.txt between or during runs ----
AppendUrl ==
    /\ Len(url_file.lines) < MaxLines
    /\ url_file' = [exists |-> TRUE,
                    lines |-> Append(url_file.lines, Len(url_file.lines) + 1)]
    /\ UNCHANGED <<state_file, pc, batch_size, partition, last_inc, win, store_vars, run_vars>>

AppendBlankLine ==
    /\ Len(url_file.lines) < MaxLines
    /\ url_file' = [exists |-> TRUE, lines |-> Append(url_file.lines, 0)]
    /\ UNCHANGED <<state_file, pc, batch_size, partition, last_inc, win, store_vars, run_vars>>

RemoveLastLine ==
    /\ url_file.exists
    /\ url_file.lines # <<>>
    /\ url_file' = [url_file EXCEPT
                      !.lines = SubSeq(url_file.lines, 1, Len(url_file.lines) - 1)]
    /\ UNCHANGED <<state_file, pc, batch_size, partition, last_inc, win, store_vars, run_vars>>

DeleteUrlFile ==
    /\ url_file.exists
    /\ url_file' = [exists |-> FALSE, lines |-> <<>>]
    /\ UNCHANGED <<state_file, pc, batch_size, partition, last_inc, win, store_vars, run_vars>>

NoStateFile ==
    [exists |-> FALSE, valid |-> FALSE, json |-> "none", current_index |-> 0]
CorruptStateFile ==
    [exists |-> TRUE, valid |-> FALSE, json |-> "none", current_index |-> 0]
\* a file that parses and holds no cursor object: [] and {"current_index": "0"}
ListStateFile ==
    [exists |-> TRUE, valid |-> TRUE, json |-> "list", current_index |-> 0]
TextIndexStateFile ==
    [exists |-> TRUE, valid |-> TRUE, json |-> "text_index", current_index |-> 0]
\* The environment leaves a state file that is absent, unparseable or of
\* another shape (a hand edit, another tool writing the same path).
WriteStateFile(sf) ==
    /\ pc \in {"idle", "loaded"}
    /\ state_file # sf
    /\ state_file' = sf
    /\ UNCHANGED <<url_file, pc, batch_size, partition, last_inc, win, store_vars,
                   run_vars>>

\* =====================================================================
\* The dataset CSV as pandas reads and writes it
\* =====================================================================
\* Text is a sequence of characters. Timestamps are readings of the clock;
\* the "%Y-%m-%d %H:%M:%S" text of a reading stands for the reading itself.
NaT == -1         \* pd.NaT in memory, the empty cell in the file
Digits == {"0", "1", "2", "3", "4", "5", "6", "7", "8", "9"}
NanText == <<"n", "a", "n">>

RECURSIVE LStrip(_)
LStrip(t) == IF t # <<>> /\ Head(t) = " " THEN LStrip(Tail(t)) ELSE t
RECURSIVE RStrip(_)
RStrip(t) ==
    IF t # <<>> /\ t[Len(t)] = " " THEN RStrip(SubSeq(t, 1, Len(t) - 1)) ELSE t
\* str.strip()
Strip(t) == RStrip(LStrip(t))

AllDigits(t) == \A i \in 1..Len(t) : t[i] \in Digits
RECURSIVE DropZeros(_)
DropZeros(t) == IF Len(t) > 1 /\ Head(t) = "0" THEN DropZeros(Tail(t)) ELSE t

\* what the CSV parser takes for an integer, a float, a missing value
IsIntText(t) == Strip(t) # <<>> /\ AllDigits(Strip(t))
IsFloatText(t) ==
    LET x == Strip(t)
    IN  \E k \in 1..Len(x) :
          /\ x[k] = "."
          /\ Len(x) > 1
          /\ AllDigits(SubSeq(x, 1, k - 1))
          /\ AllDigits(SubSeq(x, k + 1, Len(x)))
IsNaText(t) == t = <<>> \/ t = NanText

\* dtype pd.read_csv infers for the p4n_id column
KeyDtype(cells) ==
    IF \A i \in 1..Len(cells) : IsIntText(cells[i]) THEN "int"
    ELSE IF \A i \in 1..Len(cells) :
              IsIntText(cells[i]) \/ IsFloatText(cells[i]) \/ IsNaText(cells[i])
         THEN "float"
         ELSE "object"

\* str() of the float a cell parses to: "1" -> "1.0", "01.50" -> "1.5"
FloatStr(t) ==
    LET x == Strip(t)
        dot == IF \E k \in 1..Len(x) : x[k] = "."
               THEN CHOOSE k \in 1..Len(x) : x[k] = "."
               ELSE Len(x) + 1
        ip == SubSeq(x, 1, dot - 1)
        fp == SubSeq(x, dot + 1, Len(x))
        RECURSIVE DropTrail(_)
        DropTrail(f) ==
            IF Len(f) > 1 /\ f[Len(f)] = "0"
            THEN DropTrail(SubSeq(f, 1, Len(f) - 1)) ELSE f
    IN  DropZeros(IF ip = <<>> THEN <<"0">> ELSE ip) \o <<".">>
            \o DropTrail(IF fp = <<>> THEN <<"0">> ELSE fp)

\* A value of the p4n_id column in memory: its type and its str().
StrKey(t) == [ty |-> "str", s |-> t]
NanKey == [ty |-> "nan", s |-> NanText]
ReadKey(dtype, cell) ==
    CASE dtype = "int" -> [ty |-> "int", s |-> DropZeros(Strip(cell))]
      [] dtype = "float" ->
            IF IsNaText(cell) THEN NanKey ELSE [ty |-> "float", s |-> FloatStr(cell)]
      [] OTHER -> IF IsNaText(cell) THEN NanKey ELSE StrKey(cell)

\* pd.to_datetime(x, errors="coerce")
ToDatetime(x) == IF x >= 0 THEN x ELSE NaT

\* .astype(str).str.strip().replace("nan", "")
NormKey(v) == IF Strip(v.s) = NanText THEN <<>> ELSE Strip(v.s)

Column(rows) == [i \in 1..Len(rows) |-> rows[i].p4n_id]

NoCsv == [exists |-> FALSE, header |-> FALSE, rows |-> <<>>]

\* P4NScraper._load_existing: no file, a file read_csv cannot parse (no bytes)
\* or one without a last_scraped column (no header line: its first row is
\* taken for the header) give the empty DataFrame.
LoadExisting(f) ==
    IF ~f.exists \/ ~f.header
    THEN <<>>
    ELSE LET dtype == KeyDtype(Column(f.rows))
         IN  [i \in 1..Len(f.rows) |->
                [p4n_id |-> ReadKey(dtype, f.rows[i].p4n_id),
                 content |-> f.rows[i].content,
                 last_scraped |-> ToDatetime(f.rows[i].last_scraped)]]

\* pd.DataFrame(self.processed_batch): the keys are Python strings
BatchFrame(batch) ==
    [i \in 1..Len(batch) |->
        [p4n_id |-> StrKey(batch[i].p4n_id), content |-> batch[i].content,
         last_scraped |-> batch[i].last_scraped]]

\* lines 582-596 and 605-619: normalise the key and the timestamp of a frame
\* and keep the rows whose key is not empty
HasKeyOrNot(r) == TRUE
HasKey(r) == r.p4n_id # <<>>
Normalised(df) ==
    SelectSeq([i \in 1..Len(df) |->
                 [p4n_id |-> NormKey(df[i].p4n_id), content |-> df[i].content,
                  last_scraped |-> ToDatetime(df[i].last_scraped)]],
              HasKey)

\* drop_duplicates(subset=["p4n_id"], keep="first")
DropDuplicates(df) ==
    LET F[i \in 0..Len(df)] ==
          IF i = 0 THEN <<>>
          ELSE IF \E j \in 1..(i - 1) : df[j].p4n_id = df[i].p4n_id
               THEN F[i - 1]
               ELSE Append(F[i - 1], df[i])
    IN  F[Len(df)]

\* the other order of pd.concat: the snapshot first
MergeExistingFirst(batch, existing) ==
    DropDuplicates(Normalised(existing) \o Normalised(BatchFrame(batch)))
\* no str.strip() on the keys
MergeNoStrip(batch, existing) ==
    LET N(df) == SelectSeq([i \in 1..Len(df) |->
                     [p4n_id |-> IF df[i].p4n_id.s = NanText
                                 THEN <<>> ELSE df[i].p4n_id.s,
                      content |-> df[i].content,
                      last_scraped |-> ToDatetime(df[i].last_scraped)]], HasKey)
    IN  DropDuplicates(N(BatchFrame(batch)) \o N(existing))
\* lines 580-637: final_df = concat([new_df, existing]) without duplicate keys
Merge(batch, existing) ==
    DropDuplicates(Normalised(BatchFrame(batch)) \o Normalised(existing))

\* DataFrame.to_csv(index=False): the rows as text
CsvRows(df) ==
    [i \in 1..Len(df) |->
        [p4n_id |-> df[i].p4n_id, content |-> df[i].content,
         last_scraped |-> df[i].last_scraped]]

\* lines 646-650: the fallback frame is the batch as it is
FallbackRows(batch) ==
    [i \in 1..Len(batch) |->
        [p4n_id |-> batch[i].p4n_id, content |-> batch[i].content,
         last_scraped |-> batch[i].last_scraped]]

\* PipelineLogger.log_event: the first call of a process opens the log with
\* "w", the later ones with "a"; ok is whether the file could be opened.
LogAfter(type, ok) ==
    IF ~ok THEN log_file
    ELSE IF log_initialized THEN Append(log_file, type) ELSE <<type>>

\* =====================================================================
\* P4NScraper: construction, the rows a run stores, _upsert_and_save
\* =====================================================================
\* The keys extract_atomic builds (body[data-place-id] or the last URL
\* segment): an id, another id with a blank before it, and the empty string
\* of a URL that ends with "/".
RawKeys == {<<"1">>, <<" ", "2">>, <<>>}
\* The other columns of a row: what the page of the place showed to the run
\* that read the clock at t.
Page(t) == t
\* The readings of the local wall clock datetime.now() reads.
Times == 0..1

NoSave == [path |-> "none", batch |-> <<>>]

\* P4NScraper.__init__ in a new process. t is the reading of the wall clock
\* during the run: between two runs the clock advances, or it is set back (a
\* daylight-saving change, a clock correction, a run on another machine); a
\* run is short against the unit of the clock.
NewProcess(t) ==
    /\ spc = "idle"
    /\ procs < MaxProcs
    /\ procs' = procs + 1
    /\ spc' = "running"
    /\ now' = t
    /\ processed_batch' = <<>>
    /\ existing_df' = LoadExisting(csv_file)
    /\ log_initialized' = FALSE
    /\ UNCHANGED <<csv_file, log_file, file_before, last_save, repeated,
                   cursor_vars, run_vars>>

\* The end of a successful extract_atomic (lines 393-432): the row is built
\* with last_scraped = now, logged, and appended. A log_event that raises is
\* caught by the except of extract_atomic: the row is not appended.
StoreRow(k, log_ok) ==
    /\ spc = "running"
    /\ Len(processed_batch) < MaxBatch
    /\ log_initialized' = TRUE
    /\ log_file' = LogAfter("STORED_ROW", log_ok)
    /\ processed_batch' =
          IF log_ok
          THEN Append(processed_batch,
                      [p4n_id |-> k, content |-> Page(now), last_scraped |-> now])
          ELSE processed_batch
    /\ UNCHANGED <<csv_file, existing_df, now, spc, procs, file_before, last_save,
                   repeated, cursor_vars, run_vars>>

Truncated == [exists |-> TRUE, header |-> FALSE, rows |-> <<>>]

\* _upsert_and_save, called once by start(). primary is how the merge-and-write
\* path ends: "ok", "raise" (an exception before to_csv has opened the file)
\* or "truncate" (to_csv opened the file for writing and then failed).
\* log1_ok, fallback_ok and log2_ok are whether the UPSERT_SAVE_ERROR log
\* call, the fallback to_csv and the UPSERT_SAVE_FINAL_ERROR log call succeed.
UpsertAndSave(primary, log1_ok, fallback_ok, log2_ok) ==
    /\ spc = "running"
    /\ spc' = "saved"
    /\ file_before' = csv_file
    /\ repeated' = (/\ processed_batch # <<>>
                    /\ primary = "ok"
                    /\ last_save = [path |-> "primary", batch |-> processed_batch])
    /\ IF processed_batch = <<>>
       THEN /\ last_save' = [path |-> "skipped", batch |-> processed_batch]
            /\ UNCHANGED <<csv_file, log_initialized, log_file>>
       ELSE IF primary = "ok"
       THEN /\ csv_file' = [exists |-> TRUE, header |-> TRUE,
                            rows |-> CsvRows(Merge(processed_batch, existing_df))]
            /\ last_save' = [path |-> "primary", batch |-> processed_batch]
            /\ UNCHANGED <<log_initialized, log_file>>
       ELSE LET found == IF primary = "truncate" THEN Truncated ELSE csv_file
                log1 == LogAfter("UPSERT_SAVE_ERROR", log1_ok)
            IN  /\ log_initialized' = TRUE
                /\ IF ~log1_ok
                   THEN \* log_event raises inside the except block
                        /\ csv_file' = found
                        /\ log_file' = log1
                        /\ last_save' = [path |-> "raised", batch |-> processed_batch]
                   ELSE IF fallback_ok
                   THEN /\ csv_file' =
                              IF found.exists
                              THEN [found EXCEPT
                                      !.rows = found.rows \o FallbackRows(processed_batch)]
                              ELSE [exists |-> TRUE, header |-> TRUE,
                                    rows |-> FallbackRows(processed_batch)]
                        /\ log_file' = log1
                        /\ last_save' = [path |-> "fallback", batch |-> processed_batch]
                   ELSE /\ csv_file' = found
                        /\ log_file' = IF log2_ok
                                       THEN Append(log1, "UPSERT_SAVE_FINAL_ERROR")
                                       ELSE log1
                        /\ last_save' = [path |-> IF log2_ok THEN "lost" ELSE "raised",
                                         batch |-> processed_batch]
    /\ UNCHANGED <<existing_df, processed_batch, now, procs, cursor_vars, run_vars>>

\* The rest of start() and the end of the process: an exception out of
\* _upsert_and_save is caught and logged as SAVE_ERROR (log_ok: whether that
\* log call succeeds); the memory of the process is gone. Of the observation
\* only the batch of a save that wrote on the primary path is kept, for the
\* next process.
ExitProcess(log_ok) ==
    /\ spc = "saved"
    /\ log_file' = IF last_save.path = "raised"
                   THEN LogAfter("SAVE_ERROR", log_ok) ELSE log_file
    /\ spc' = "idle"
    /\ processed_batch' = <<>>
    /\ existing_df' = <<>>
    /\ now' = 0
    /\ log_initialized' = FALSE
    /\ file_before' = NoCsv
    /\ last_save' = IF last_save.path = "primary" THEN last_save ELSE NoSave
    /\ repeated' = FALSE
    /\ UNCHANGED <<csv_file, procs, cursor_vars, run_vars>>

\* =====================================================================
\* P4NScraper.start: one run, from the command line to the cursor advance
\* =====================================================================
\* --- configurable constants of backbone_crawler.py ---
REVIEW_COUNT_THRESHOLD == 100
CONCURRENCY_LIMIT == 3
MAX_GEMINI_RETRIES == 3
\* AI_DELAY = 1.0, in seconds
AI_DELAY == 1
STALENESS_DAYS == 30
MIN_REVIEWS_THRESHOLD == 5
DEV_LIMIT == 1

\* The place ids at the end of the links a search page shows.
CandIds == {<<"1">>, <<"2">>}
\* discovered = list(set(discovery_links)): no link twice, in any order
CandLists ==
    {q \in UNION {[1..n -> CandIds] : n \in 0..Cardinality(CandIds)} :
        \A i, j \in 1..Len(q) : i # j => q[i] # q[j]}

\* The readings of datetime.now() in a run over a dataset whose rows were
\* stored at the readings 0, 1 and 2: time is counted in days.
RunTimes == {STALENESS_DAYS + 1}

NoOpts == [mode |-> "none", force |-> FALSE]
NoStats == [read |-> 0, discarded_fresh |-> 0, discarded_low_feedback |-> 0,
            gemini_flash_calls |-> 0, gemini_lite_calls |-> 0, gemini_errors |-> 0]
NoSummary == [printed |-> FALSE, stats |-> NoStats]

Terminal == {"returned", "raised", "failed", "discarded", "stored"}
InsideSemaphore == {"page", "gated", "enriching", "enriched"}

\* if __name__ == "__main__": the arguments of the process
Configure(mode, force) ==
    /\ opts = NoOpts
    /\ spc = "idle"
    /\ opts' = [mode |-> mode, force |-> force]
    /\ UNCHANGED <<site, stage, discovered, tasks, stats, pending_exc, summary,
                   cursor_vars, store_vars>>

\* P4NScraper(...): the constructor, once the arguments are known
Construct(t) ==
    /\ opts # NoOpts
    /\ NewProcess(t)

\* start() without --url and --search_url (with --dev too): the partition is
\* asked for
FromQueue == opts.mode \in {"queue", "dev"}
QueueStart(b) ==
    /\ FromQueue
    /\ spc = "running"
    /\ StartRun(b)

QueuePartition ==
    /\ spc = "running"
    /\ GetNextPartition

\* target_urls of start() (lines 459-468)
Targets ==
    IF FromQueue THEN partition.urls ELSE <<1>>

\* Lines 477-497: the discovery. ids are the place ids of the links found on
\* the target pages (of the single URL with --url); ok is whether every
\* page.goto of the loop succeeded: it is not inside a try.
Discover(ids, ok) ==
    /\ spc = "running"
    /\ stage = "off"
    /\ opts.mode # "none"
    /\ FromQueue => pc = "loaded"
    /\ opts.mode = "single" => (Len(ids) = 1 /\ ok)
    /\ (opts.mode # "single" /\ Targets = <<>>) => (ids = <<>> /\ ok)
    /\ (opts.mode # "single" /\ Targets # <<>> /\ ok) =>
           (Len(ids) = Cardinality(site) /\ {ids[i] : i \in 1..Len(ids)} = site)
    /\ ~ok => ids = <<>>
    /\ IF ok
       THEN /\ stage' = "filter"
            /\ discovered' = [i \in 1..Len(ids) |->
                                [id |-> ids[i], verdict |-> "pending"]]
       ELSE /\ stage' = "crashed"
            /\ UNCHANGED discovered
    /\ UNCHANGED <<site, opts, tasks, stats, pending_exc, summary, cursor_vars, store_vars>>

\* Lines 508-520: the staleness filter. The snapshot is searched for
\* str(p_id) among the keys as strings; the first row found decides.
KeyText(v) == v.s
RowsFor(df, id) == {i \in 1..Len(df) : KeyText(df[i].p4n_id) = id}
FirstRowFor(df, id) == CHOOSE i \in RowsFor(df, id) : \A j \in RowsFor(df, id) : i <= j
IsStaleBelow(df, id, force, t, ttl) ==
    IF force \/ df = <<>> \/ RowsFor(df, id) = {}
    THEN TRUE
    ELSE LET last_date == df[FirstRowFor(df, id)].last_scraped
         IN  ~(last_date # NaT /\ t - last_date < ttl)
IsStaleStrict(df, id, force, t) == IsStaleBelow(df, id, force, t, STALENESS_DAYS + 1)
IsStaleEarly(df, id, force, t) == IsStaleBelow(df, id, force, t, STALENESS_DAYS - 1)
IsStaleOnce(df, id, force, t) ==
    /\ IsStaleBelow(df, id, force, t, STALENESS_DAYS)
    /\ summary.stats.discarded_low_feedback = 0
IsStale(df, id, force, t) == IsStaleBelow(df, id, force, t, STALENESS_DAYS)

\* A coroutine of extract_atomic: the place id of its link, its position, the
\* feedback count it parsed, the number of requests its analyze_with_ai has
\* issued, whether every response so far was one the loop retries on, and
\* the kind of ai_data it got back.
NewTask(id) ==
    [id |-> id, st |-> "created", count |-> 0, attempt |-> 0, bad |-> TRUE,
     ai |-> "none", reviews |-> 0, model |-> "none", delays |-> <<>>]

PendingButFirst == {i \in 2..Len(discovered) : discovered[i].verdict = "pending"}
Pending == {i \in 1..Len(discovered) : discovered[i].verdict = "pending"}

\* One turn of "for link in discovered" (lines 503-537). In dev mode the
\* extraction is awaited inside the loop, so the next turn starts when it has
\* ended.
\* The test of lines 504, 526 and 278: the dev run has its DEV_LIMIT rows.
DevDoneAbove == opts.mode = "dev" /\ stats.read > DEV_LIMIT
DevDone == opts.mode = "dev" /\ stats.read >= DEV_LIMIT
FilterNext ==
    /\ stage = "filter"
    /\ spc = "running"
    /\ opts.mode = "dev" => \A i \in 1..Len(tasks) : tasks[i].st \in Terminal \ {"raised"}
    /\ IF Pending = {} \/ DevDone
       THEN /\ stage' = "gather"
            /\ UNCHANGED <<site, discovered, tasks, stats>>
       ELSE LET i == CHOOSE i \in Pending : \A j \in Pending : i <= j
                id == discovered[i].id
            IN  IF IsStale(existing_df, id, opts.force, now) \/ opts.force
                THEN /\ discovered' = [discovered EXCEPT ![i].verdict = "scheduled"]
                     /\ tasks' = Append(tasks, NewTask(id))
                     /\ UNCHANGED <<site, stage, stats>>
                ELSE /\ discovered' = [discovered EXCEPT ![i].verdict = "fresh"]
                     /\ stats' = [stats EXCEPT !.discarded_fresh = @ + 1]
                     /\ UNCHANGED <<site, stage, tasks>>
    /\ UNCHANGED <<site, opts, pending_exc, summary, cursor_vars, store_vars>>

\* In dev mode an exception that leaves extract_atomic leaves start() too: the
\* await of line 524 is in no try.
DevAbort ==
    /\ stage = "filter"
    /\ opts.mode = "dev"
    /\ \E i \in 1..Len(tasks) : tasks[i].st = "raised"
    /\ stage' = "crashed"
    /\ UNCHANGED <<site, opts, discovered, tasks, stats, pending_exc, summary,
                   cursor_vars, store_vars>>

\* --- extract_atomic: one coroutine per scheduled candidate ---
\* The coroutines run while start() awaits them: inside the loop in dev mode,
\* in asyncio.gather otherwise, and, once gather has raised, while start()
\* awaits browser.close() before the save.
TasksRun ==
    /\ spc = "running"
    /\ \/ stage \in {"gather", "save"}
       \/ stage = "filter" /\ opts.mode = "dev"

\* The feedback counts a page shows, around the quality gate.
Counts == {MIN_REVIEWS_THRESHOLD - 1, MIN_REVIEWS_THRESHOLD}
\* The numbers of recent reviews of a page, around the model tier threshold.
ReviewCounts == {REVIEW_COUNT_THRESHOLD, REVIEW_COUNT_THRESHOLD + 1}
\* What one generate_content request ends with: a JSON object, JSON that is
\* not an object (a top-level array), text json.loads rejects, an error whose
\* message names 503, overloaded or deadline, any other error.
Responses == {"object", "malformed", "bad_json", "transient", "permanent"}
\* Those that end the loop at the first request.
FirstTry == {"object", "malformed", "permanent"}

\* The other columns of a row built from an empty ai_data: the enrichment
\* columns are None.
BarePage(t) == -1 - t

\* Lines 277-294: the semaphore is entered, START_SCRAPE is logged and the
\* page is created, all before the try.
SemaphoreAlwaysFree == TRUE
SemaphoreFree ==
    Cardinality({j \in 1..Len(tasks) : tasks[j].st \in InsideSemaphore})
        < CONCURRENCY_LIMIT
TaskBegin(i, log_ok, page_ok) ==
    /\ TasksRun
    /\ tasks[i].st = "created"
    /\ SemaphoreFree
    /\ IF DevDone
       THEN /\ tasks' = [tasks EXCEPT ![i].st = "returned"]
            /\ UNCHANGED <<log_initialized, log_file>>
       ELSE /\ log_initialized' = TRUE
            /\ log_file' = LogAfter("START_SCRAPE", log_ok)
            /\ tasks' = [tasks EXCEPT
                           ![i].st = IF log_ok /\ page_ok THEN "page" ELSE "raised"]
    /\ UNCHANGED <<site, opts, stage, discovered, stats, pending_exc, summary, cursor_vars,
                   csv_file, existing_df, processed_batch, now, spc, procs,
                   file_before, last_save, repeated>>

\* Lines 295-313: the page is loaded and the feedback count parsed (ok: no
\* page error); below MIN_REVIEWS_THRESHOLD the item is discarded.
LowFeedbackAtMost(c) == c <= MIN_REVIEWS_THRESHOLD
LowFeedbackUnlessForced(c) == c < MIN_REVIEWS_THRESHOLD /\ ~opts.force
LowFeedback(c) == c < MIN_REVIEWS_THRESHOLD
TaskReadPage(i, ok, c) ==
    /\ TasksRun
    /\ tasks[i].st = "page"
    /\ IF ~ok
       THEN /\ tasks' = [tasks EXCEPT ![i].st = "failed"]
            /\ UNCHANGED stats
       ELSE IF LowFeedback(c)
       THEN /\ tasks' = [tasks EXCEPT ![i].st = "discarded", ![i].count = c]
            /\ stats' = [stats EXCEPT !.discarded_low_feedback = @ + 1]
       ELSE /\ tasks' = [tasks EXCEPT ![i].st = "gated", ![i].count = c]
            /\ UNCHANGED stats
    /\ UNCHANGED <<site, opts, stage, discovered, pending_exc, summary, cursor_vars,
                   store_vars>>

\* Lines 315-384 and 186-228: the fields are read (ok: no page error), the
\* model is chosen by the number of recent reviews, analyze_with_ai counts
\* the call, loads taxonomy and prompt (prompt_ok) and logs SENT_TO_GEMINI.
\* selected_model (lines 378-381)
SelectedModelFrom(review_count) ==
    IF review_count >= REVIEW_COUNT_THRESHOLD THEN "flash" ELSE "lite"
SelectedModel(review_count) ==
    IF review_count > REVIEW_COUNT_THRESHOLD THEN "flash" ELSE "lite"
TaskEnrichStart(i, ok, reviews, prompt_ok, log_ok) ==
    /\ TasksRun
    /\ tasks[i].st = "gated"
    /\ IF ~ok
       THEN /\ tasks' = [tasks EXCEPT ![i].st = "failed"]
            /\ UNCHANGED <<site, stats, log_initialized, log_file>>
       ELSE LET model == SelectedModel(reviews)
                called == [tasks[i] EXCEPT !.reviews = reviews, !.model = model]
            IN  /\ stats' = IF model = "flash"
                            THEN [stats EXCEPT !.gemini_flash_calls = @ + 1]
                            ELSE [stats EXCEPT !.gemini_lite_calls = @ + 1]
                /\ IF ~prompt_ok
                   THEN /\ tasks' = [tasks EXCEPT ![i] = [called EXCEPT !.st = "enriched",
                                                                       !.ai = "empty"]]
                        /\ UNCHANGED <<log_initialized, log_file>>
                   ELSE /\ log_initialized' = TRUE
                        /\ log_file' = LogAfter("SENT_TO_GEMINI", log_ok)
                        /\ tasks' = [tasks EXCEPT ![i] =
                                       [called EXCEPT
                                          !.st = IF log_ok THEN "enriching" ELSE "failed"]]
    /\ UNCHANGED <<site, opts, stage, discovered, pending_exc, summary, cursor_vars,
                   csv_file, existing_df, processed_batch, now, spc, procs,
                   file_before, last_save, repeated>>

\* is_json_error or is_transient, and attempts remain (line 263)
Retried(resp, attempt) ==
    resp \in {"bad_json", "transient"} /\ attempt < MAX_GEMINI_RETRIES - 1

\* Lines 236-274: one turn of the attempt loop. tasks[i].attempt requests have
\* been issued before it. log_ok is whether the first log_event of the turn
\* succeeds, log2_ok the second (GEMINI_ERROR after a GEMINI_ANSWER that
\* raised inside the try).
\* asyncio.sleep(AI_DELAY * (attempt + 1)), the first statement of a turn
DelayFlat(attempt) == AI_DELAY
Delay(attempt) == AI_DELAY * (attempt + 1)
TaskAttempt(i, resp, log_ok, log2_ok) ==
    /\ TasksRun
    /\ tasks[i].st = "enriching"
    /\ LET t == tasks[i]
           issued == [t EXCEPT !.attempt = @ + 1,
                               !.delays = Append(@, Delay(t.attempt)),
                               !.bad = @ /\ resp \in {"bad_json", "transient"}]
           answered == resp \in {"object", "malformed"}
           error_logged == IF answered THEN log2_ok ELSE log_ok
       IN  IF answered /\ log_ok
           THEN /\ tasks' = [tasks EXCEPT ![i] = [issued EXCEPT !.st = "enriched",
                                                               !.ai = resp]]
                /\ log_file' = LogAfter("GEMINI_ANSWER", TRUE)
                /\ UNCHANGED stats
           ELSE IF Retried(resp, t.attempt)
           THEN /\ tasks' = [tasks EXCEPT ![i] = issued]
                /\ UNCHANGED <<site, stats, log_file>>
           ELSE /\ log_file' = LogAfter("GEMINI_ERROR", error_logged)
                /\ IF error_logged
                   THEN /\ tasks' = [tasks EXCEPT ![i] = [issued EXCEPT !.st = "enriched",
                                                                       !.ai = "empty"]]
                        /\ stats' = [stats EXCEPT !.gemini_errors = @ + 1]
                   ELSE /\ tasks' = [tasks EXCEPT ![i] = [issued EXCEPT !.st = "failed"]]
                        /\ UNCHANGED stats
    /\ UNCHANGED <<site, opts, stage, discovered, pending_exc, summary, cursor_vars,
                   csv_file, existing_df, processed_batch, now, spc, procs,
                   log_initialized, file_before, last_save, repeated>>

\* Lines 385-432: ai_data.get(...) (AttributeError when ai_data is no dict),
\* the last page reads (ok), the row, STORED_ROW, the append.
TaskStore(i, ok, log_ok) ==
    /\ TasksRun
    /\ tasks[i].st = "enriched"
    /\ IF tasks[i].ai = "malformed" \/ ~ok
       THEN /\ tasks' = [tasks EXCEPT ![i].st = "failed"]
            /\ UNCHANGED <<site, processed_batch, stats, log_file>>
       ELSE /\ log_file' = LogAfter("STORED_ROW", log_ok)
            /\ IF log_ok
               THEN /\ processed_batch' =
                          Append(processed_batch,
                                 [p4n_id |-> tasks[i].id,
                                  content |-> IF tasks[i].ai = "object"
                                              THEN Page(now) ELSE BarePage(now),
                                  last_scraped |-> now])
                    /\ stats' = [stats EXCEPT !.read = @ + 1]
                    /\ tasks' = [tasks EXCEPT ![i].st = "stored"]
               ELSE /\ tasks' = [tasks EXCEPT ![i].st = "failed"]
                    /\ UNCHANGED <<site, processed_batch, stats>>
    /\ UNCHANGED <<site, opts, stage, discovered, pending_exc, summary, cursor_vars,
                   csv_file, existing_df, now, spc, procs, log_initialized,
                   file_before, last_save, repeated>>

\* --- the end of start() ---
\* Lines 538-543: asyncio.gather returns when every coroutine has returned
\* and raises the first exception that leaves one; RUN_ERROR is then logged
\* (log_ok), and an exception of that log call propagates behind the finally.
Gather(log_ok) ==
    /\ stage = "gather"
    /\ spc = "running"
    /\ LET raised == \E i \in 1..Len(tasks) : tasks[i].st = "raised"
       IN  /\ raised \/ \A i \in 1..Len(tasks) : tasks[i].st \in Terminal
           /\ IF raised
              THEN /\ log_initialized' = TRUE
                   /\ log_file' = LogAfter("RUN_ERROR", log_ok)
                   /\ pending_exc' = ~log_ok
              ELSE UNCHANGED <<site, log_initialized, log_file, pending_exc>>
    /\ stage' = "save"
    /\ UNCHANGED <<site, opts, discovered, tasks, stats, summary, cursor_vars,
                   csv_file, existing_df, processed_batch, now, spc, procs,
                   file_before, last_save, repeated>>

\* Lines 544-551: the finally of start() calls _upsert_and_save
Save(primary, log1_ok, fallback_ok, log2_ok) ==
    /\ stage = "save"
    /\ UpsertAndSave(primary, log1_ok, fallback_ok, log2_ok)

\* Lines 552-570: an exception of _upsert_and_save is logged as SAVE_ERROR
\* (log_ok); unless an exception propagates, the run summary is printed.
Summary(log_ok) ==
    /\ stage = "save"
    /\ spc = "saved"
    /\ LET raised == last_save.path = "raised"
       IN  /\ log_file' = IF raised THEN LogAfter("SAVE_ERROR", log_ok) ELSE log_file
           /\ IF pending_exc \/ (raised /\ ~log_ok)
              THEN /\ stage' = "crashed"
                   /\ UNCHANGED summary
              ELSE /\ stage' = "summary"
                   /\ summary' = [printed |-> TRUE, stats |-> stats]
    /\ UNCHANGED <<site, opts, discovered, tasks, stats, pending_exc, cursor_vars,
                   csv_file, existing_df, processed_batch, now, spc, procs,
                   log_initialized, file_before, last_save, repeated>>

\* Lines 572-573: the cursor is advanced in queue mode
AdvanceBeforeMerge ==
    /\ stage = "gather"
    /\ opts.mode = "queue"
    /\ IncrementState
\* not self.is_dev and not self.single_url and not self.search_url
QueueModeOrDev == opts.mode \in {"queue", "dev"}
QueueMode == opts.mode = "queue"
Advance ==
    /\ stage = "summary"
    /\ QueueMode
    /\ IncrementState

\* to_csv of line 639 opens the dataset file for writing, which empties it,
\* and writes the header and the rows into it: what the file holds when the
\* process is killed during the write is a proper prefix of the output.
PartialFiles(out) ==
    {Truncated}
    \cup {[exists |-> TRUE, header |-> TRUE, rows |-> SubSeq(out, 1, n)] :
             n \in 0..(Len(out) - 1)}

\* The process is killed (a signal, the machine goes down). Before the save
\* the batch is lost and the files stay as they are; during the to_csv of
\* the primary path (writing) the file is left partly written; after the save
\* nothing changes. The memory of the killed process is kept as observation.
Interrupt(writing) ==
    /\ spc \in {"running", "saved"}
    /\ spc' = "killed"
    /\ IF spc = "running"
       THEN /\ file_before' = csv_file
            /\ last_save' = [path |-> "interrupted", batch |-> processed_batch]
            /\ IF writing
               THEN /\ processed_batch # <<>>
                    /\ csv_file' \in
                          PartialFiles(CsvRows(Merge(processed_batch, existing_df)))
               ELSE UNCHANGED csv_file
       ELSE /\ ~writing
            /\ UNCHANGED <<csv_file, file_before, last_save>>
    /\ UNCHANGED <<existing_df, processed_batch, now, procs, log_initialized,
                   log_file, repeated, cursor_vars, run_vars>>

\* The process of a run that printed its summary ends, and the same command
\* is started again, at once or a day later: a new process with
\* the same arguments loads the dataset the earlier one left. The summary the
\* earlier run printed stays on the terminal.
Rerun(t) ==
    /\ stage = "summary"
    /\ spc = "saved"
    /\ opts.mode = "queue" => pc = "advanced"
    /\ procs < MaxProcs
    /\ procs' = procs + 1
    /\ spc' = "running"
    /\ now' = t
    /\ processed_batch' = <<>>
    /\ existing_df' = LoadExisting(csv_file)
    /\ log_initialized' = FALSE
    /\ file_before' = NoCsv
    /\ last_save' = NoSave
    /\ repeated' = FALSE
    /\ pc' = "idle"
    /\ partition' = NoPartition
    /\ stage' = "off"
    /\ discovered' = <<>>
    /\ tasks' = <<>>
    /\ stats' = NoStats
    /\ pending_exc' = FALSE
    /\ UNCHANGED <<site, opts, summary, csv_file, log_file, url_file, state_file,
                   batch_size, last_inc, win>>

\* =====================================================================
\* Specifications
\* =====================================================================
CursorAtRest ==
    /\ url_file = [exists |-> TRUE, lines |-> <<1>>]
    /\ state_file = NoStateFile
    /\ pc = "idle"
    /\ batch_size = 1
    /\ partition = NoPartition
    /\ last_inc = [wrote |-> FALSE, n |-> 0]
    /\ win = NoWindow

StoreAtRest ==
    /\ csv_file = NoCsv
    /\ existing_df = <<>>
    /\ processed_batch = <<>>
    /\ now = 0
    /\ spc = "idle"
    /\ procs = 0
    /\ log_initialized = FALSE
    /\ log_file = <<>>
    /\ file_before = NoCsv
    /\ last_save = NoSave
    /\ repeated = FALSE

RunIdle ==
    /\ opts = NoOpts
    /\ stage = "off"
    /\ discovered = <<>>
    /\ tasks = <<>>
    /\ stats = NoStats
    /\ pending_exc = FALSE
    /\ summary = NoSummary

RunAtRest ==
    /\ site = {}
    /\ RunIdle

\* A dataset an earlier run left behind when its save ended on the fallback
\* path with a batch of two rows, one of them with the empty key.
LeftoverCsv ==
    [exists |-> TRUE, header |-> TRUE,
     rows |-> <<[p4n_id |-> <<>>, content |-> Page(0), last_scraped |-> 0],
                [p4n_id |-> <<"1">>, content |-> Page(0), last_scraped |-> 0]>>]

\* The store: processes that load the dataset, store rows and save, one after
\* the other, from a deployment without a dataset file.
InitStore ==
    /\ StoreAtRest
    /\ CursorAtRest
    /\ RunAtRest

NextStore ==
    \/ \E t \in Times : NewProcess(t)
    \/ \E k \in RawKeys, ok \in BOOLEAN : StoreRow(k, ok)
    \/ \E primary \in {"ok", "raise", "truncate"}, l1 \in BOOLEAN, f \in BOOLEAN,
          l2 \in BOOLEAN : UpsertAndSave(primary, l1, f, l2)
    \/ \E ok \in BOOLEAN : ExitProcess(ok)

SpecStore == InitStore /\ [][NextStore]_vars

\* The same processes, any of which may be killed while it runs.
NextInterrupt ==
    \/ \E t \in Times : NewProcess(t)
    \/ \E k \in RawKeys, ok \in BOOLEAN : StoreRow(k, ok)
    \/ \E primary \in {"ok", "raise", "truncate"}, l1 \in BOOLEAN, f \in BOOLEAN,
          l2 \in BOOLEAN : UpsertAndSave(primary, l1, f, l2)
    \/ \E ok \in BOOLEAN : ExitProcess(ok)
    \/ \E writing \in BOOLEAN : Interrupt(writing)

SpecInterrupt == InitStore /\ [][NextInterrupt]_vars

\* The same processes, started on the leftover dataset.
InitStoreLeftover ==
    /\ csv_file = LeftoverCsv
    /\ existing_df = <<>>
    /\ processed_batch = <<>>
    /\ now = 0
    /\ spc = "idle"
    /\ procs = 0
    /\ log_initialized = FALSE
    /\ log_file = <<>>
    /\ file_before = NoCsv
    /\ last_save = NoSave
    /\ repeated = FALSE
    /\ CursorAtRest
    /\ RunAtRest

SpecStoreLeftover == InitStoreLeftover /\ [][NextStore]_vars

\* One run of the pipeline, from the command line to the cursor advance.
\* A dataset file with one row per key of ks, stored at the reading ts of the
\* clock (-1: a last_scraped pandas cannot parse).
Snapshot(ks, ts) ==
    [exists |-> TRUE, header |-> TRUE,
     rows |-> [i \in 1..Len(ks) |->
                 [p4n_id |-> ks[i], content |-> Page(IF ts < 0 THEN 0 ELSE ts),
                  last_scraped |-> ts]]]
\* The run reads the clock at STALENESS_DAYS + 1: the rows are 31, 30 and 29
\* days old.
SnapshotFiles ==
    {NoCsv} \cup {Snapshot(<<<<"1">>>>, ts) : ts \in {-1, 0, 1, 2}}
UrlList == [exists |-> TRUE, lines |-> <<1>>]
BlankUrlList == [exists |-> TRUE, lines |-> <<0>>]
NoUrlList == [exists |-> FALSE, lines |-> <<>>]
\* What a run finds: the URL list, the places the site shows, the dataset.
\* One place shown over every dataset; another place, of which the dataset
\* has no row; two places over no dataset and over one that has both, 29
\* days old; no place; a URL list that is blank or missing.
Deployments ==
    {<<UrlList, {<<"1">>}, f>> : f \in SnapshotFiles}
    \cup {<<UrlList, {<<"2">>}, f>> : f \in {NoCsv, Snapshot(<<<<"1">>>>, 2)}}
    \cup {<<UrlList, CandIds, f>> :
             f \in {NoCsv, Snapshot(<<<<"1">>, <<"2">>>>, 2)}}
    \cup {<<UrlList, {}, NoCsv>>}
    \cup {<<u, {<<"1">>}, f>> : u \in {BlankUrlList, NoUrlList},
                               f \in {NoCsv, Snapshot(<<<<"1">>>>, 0)}}

InitRun ==
    /\ \E d \in Deployments : url_file = d[1] /\ site = d[2] /\ csv_file = d[3]
    /\ state_file = NoStateFile
    /\ pc = "idle"
    /\ batch_size = 1
    /\ partition = NoPartition
    /\ last_inc = [wrote |-> FALSE, n |-> 0]
    /\ win = NoWindow
    /\ existing_df = <<>>
    /\ processed_batch = <<>>
    /\ now = 0
    /\ spc = "idle"
    /\ procs = 0
    /\ log_initialized = FALSE
    /\ log_file = <<>>
    /\ file_before = NoCsv
    /\ last_save = NoSave
    /\ repeated = FALSE
    /\ RunIdle

NextRun ==
    \/ \E mode \in {"queue", "dev", "single", "search"}, force \in BOOLEAN :
          Configure(mode, force)
    \/ \E t \in RunTimes : Construct(t)
    \/ QueueStart(1)
    \/ QueuePartition
    \/ \E ids \in CandLists, ok \in BOOLEAN : Discover(ids, ok)
    \/ FilterNext
    \/ DevAbort
    \/ \E i \in 1..Len(tasks), log_ok \in BOOLEAN, page_ok \in BOOLEAN :
          TaskBegin(i, log_ok, page_ok)
    \/ \E i \in 1..Len(tasks), ok \in BOOLEAN, c \in Counts : TaskReadPage(i, ok, c)
    \/ \E i \in 1..Len(tasks), ok \in BOOLEAN, reviews \in ReviewCounts,
          prompt_ok \in BOOLEAN, log_ok \in BOOLEAN :
          TaskEnrichStart(i, ok, reviews, prompt_ok, log_ok)
    \/ \E i \in 1..Len(tasks), resp \in FirstTry, log_ok \in BOOLEAN,
          log2_ok \in BOOLEAN : TaskAttempt(i, resp, log_ok, log2_ok)
    \/ \E i \in 1..Len(tasks), ok \in BOOLEAN, log_ok \in BOOLEAN :
          TaskStore(i, ok, log_ok)
    \/ \E log_ok \in BOOLEAN : Gather(log_ok)
    \/ \E primary \in {"ok", "raise", "truncate"}, l1 \in BOOLEAN, f \in BOOLEAN,
          l2 \in BOOLEAN : Save(primary, l1, f, l2)
    \/ \E log_ok \in BOOLEAN : Summary(log_ok)
    \/ Advance

SpecRun == InitRun /\ [][NextRun]_vars

\* The same command run again and again over a site that shows one place.
InitRerun ==
    /\ url_file = UrlList
    /\ site = {<<"1">>}
    /\ csv_file \in SnapshotFiles
    /\ state_file = NoStateFile
    /\ pc = "idle"
    /\ batch_size = 1
    /\ partition = NoPartition
    /\ last_inc = [wrote |-> FALSE, n |-> 0]
    /\ win = NoWindow
    /\ existing_df = <<>>
    /\ processed_batch = <<>>
    /\ now = 0
    /\ spc = "idle"
    /\ procs = 0
    /\ log_initialized = FALSE
    /\ log_file = <<>>
    /\ file_before = NoCsv
    /\ last_save = NoSave
    /\ repeated = FALSE
    /\ RunIdle

NextRerun ==
    \/ \E mode \in {"queue", "search"}, force \in BOOLEAN : Configure(mode, force)
    \/ \E t \in RunTimes : Construct(t)
    \/ QueueStart(1)
    \/ QueuePartition
    \/ \E ids \in CandLists : Discover(ids, TRUE)
    \/ FilterNext
    \/ \E i \in 1..Len(tasks) : TaskBegin(i, TRUE, TRUE)
    \/ \E i \in 1..Len(tasks), ok \in BOOLEAN, c \in Counts : TaskReadPage(i, ok, c)
    \/ \E i \in 1..Len(tasks), reviews \in ReviewCounts :
          TaskEnrichStart(i, TRUE, reviews, TRUE, TRUE)
    \/ \E i \in 1..Len(tasks), resp \in FirstTry : TaskAttempt(i, resp, TRUE, TRUE)
    \/ \E i \in 1..Len(tasks), ok \in BOOLEAN : TaskStore(i, ok, TRUE)
    \/ Gather(TRUE)
    \/ \E primary \in {"ok", "raise"}, f \in BOOLEAN : Save(primary, TRUE, f, TRUE)
    \/ Summary(TRUE)
    \/ Advance
    \/ \E t \in now..(now + 1) : Rerun(t)

SpecRerun == InitRerun /\ [][NextRerun]_vars

\* One call of analyze_with_ai with every kind of response: a run started
\* with --search_url over no dataset has scheduled the one place the site
\* shows, and extract_atomic has read a feedback count at the threshold.
InitEnrich ==
    /\ url_file = UrlList
    /\ site = {<<"1">>}
    /\ csv_file = NoCsv
    /\ state_file = NoStateFile
    /\ pc = "idle"
    /\ batch_size = 1
    /\ partition = NoPartition
    /\ last_inc = [wrote |-> FALSE, n |-> 0]
    /\ win = NoWindow
    /\ existing_df = <<>>
    /\ processed_batch = <<>>
    /\ now \in RunTimes
    /\ spc = "running"
    /\ procs = 1
    /\ log_initialized = TRUE
    /\ log_file = <<"START_SCRAPE">>
    /\ file_before = NoCsv
    /\ last_save = NoSave
    /\ repeated = FALSE
    /\ opts = [mode |-> "search", force |-> FALSE]
    /\ stage = "gather"
    /\ discovered = <<[id |-> <<"1">>, verdict |-> "scheduled"]>>
    /\ tasks = <<[NewTask(<<"1">>) EXCEPT !.st = "gated",
                                          !.count = MIN_REVIEWS_THRESHOLD]>>
    /\ stats = NoStats
    /\ pending_exc = FALSE
    /\ summary = NoSummary

NextEnrich ==
    \/ \E i \in 1..Len(tasks), ok \in BOOLEAN, reviews \in ReviewCounts,
          prompt_ok \in BOOLEAN, log_ok \in BOOLEAN :
          TaskEnrichStart(i, ok, reviews, prompt_ok, log_ok)
    \/ \E i \in 1..Len(tasks), resp \in Responses, log_ok \in BOOLEAN,
          log2_ok \in BOOLEAN : TaskAttempt(i, resp, log_ok, log2_ok)
    \/ \E i \in 1..Len(tasks), ok \in BOOLEAN, log_ok \in BOOLEAN :
          TaskStore(i, ok, log_ok)
    \/ \E log_ok \in BOOLEAN : Gather(log_ok)
    \/ \E primary \in {"ok", "raise", "truncate"}, l1 \in BOOLEAN, f \in BOOLEAN,
          l2 \in BOOLEAN : Save(primary, l1, f, l2)
    \/ \E log_ok \in BOOLEAN : Summary(log_ok)

SpecEnrich == InitEnrich /\ [][NextEnrich]_vars

\* The extraction of a run in which nothing fails: a run started with
\* --search_url over no dataset has found one place more than the semaphore
\* admits and has scheduled them all; every log call, page operation and
\* request succeeds, and the pages show feedback counts around the gate.
DigitChars == <<"1", "2", "3", "4", "5", "6", "7", "8", "9">>
ManyIds == [i \in 1..(CONCURRENCY_LIMIT + 1) |-> <<DigitChars[i]>>]
InitTasks ==
    /\ url_file = UrlList
    /\ site = {ManyIds[i] : i \in 1..Len(ManyIds)}
    /\ csv_file = NoCsv
    /\ state_file = NoStateFile
    /\ pc = "idle"
    /\ batch_size = 1
    /\ partition = NoPartition
    /\ last_inc = [wrote |-> FALSE, n |-> 0]
    /\ win = NoWindow
    /\ existing_df = <<>>
    /\ processed_batch = <<>>
    /\ now \in RunTimes
    /\ spc = "running"
    /\ procs = 1
    /\ log_initialized = FALSE
    /\ log_file = <<>>
    /\ file_before = NoCsv
    /\ last_save = NoSave
    /\ repeated = FALSE
    /\ opts = [mode |-> "search", force |-> FALSE]
    /\ stage = "gather"
    /\ discovered = [i \in 1..Len(ManyIds) |->
                       [id |-> ManyIds[i], verdict |-> "scheduled"]]
    /\ tasks = [i \in 1..Len(ManyIds) |-> NewTask(ManyIds[i])]
    /\ stats = NoStats
    /\ pending_exc = FALSE
    /\ summary = NoSummary

NextTasks ==
    \/ \E i \in 1..Len(tasks) : TaskBegin(i, TRUE, TRUE)
    \/ \E i \in 1..Len(tasks), c \in Counts : TaskReadPage(i, TRUE, c)
    \/ \E i \in 1..Len(tasks) :
          TaskEnrichStart(i, TRUE, REVIEW_COUNT_THRESHOLD, TRUE, TRUE)
    \/ \E i \in 1..Len(tasks) : TaskAttempt(i, "object", TRUE, TRUE)
    \/ \E i \in 1..Len(tasks) : TaskStore(i, TRUE, TRUE)

SpecTasks == InitTasks /\ [][NextTasks]_vars

\* First run of a deployment: a URL list with one URL, no cursor yet, or a
\* state file an interrupted json.dump left unparseable.
InitCursor ==
    /\ url_file = [exists |-> TRUE, lines |-> <<1>>]
    /\ state_file \in {NoStateFile, CorruptStateFile}
    /\ pc = "idle"
    /\ batch_size = 1
    /\ partition = NoPartition
    /\ last_inc = [wrote |-> FALSE, n |-> 0]
    /\ win = NoWindow
    /\ StoreAtRest
    /\ RunAtRest

RunCursor ==
    \/ \E b \in 1..MaxBatchSize : StartRun(b)
    \/ GetNextPartition
    \/ IncrementState
    \/ Exit

NextCursor ==
    \/ RunCursor
    \/ AppendUrl
    \/ AppendBlankLine
    \/ RemoveLastLine
    \/ DeleteUrlFile

SpecCursor == InitCursor /\ [][NextCursor]_vars

\* Runs over a state file the environment leaves in any shape.
StateFiles == {NoStateFile, CorruptStateFile, ListStateFile, TextIndexStateFile}
InitCursorShapes ==
    /\ url_file = [exists |-> TRUE, lines |-> <<1>>]
    /\ state_file \in StateFiles
    /\ pc = "idle"
    /\ batch_size = 1
    /\ partition = NoPartition
    /\ last_inc = [wrote |-> FALSE, n |-> 0]
    /\ win = NoWindow
    /\ StoreAtRest
    /\ RunAtRest

NextCursorShapes ==
    \/ \E b \in 1..MaxBatchSize : StartRun(b)
    \/ GetNextPartition
    \/ IncrementState
    \/ Exit
    \/ AppendUrl
    \/ \E sf \in StateFiles : WriteStateFile(sf)

SpecCursorShapes == InitCursorShapes /\ [][NextCursorShapes]_vars

\* The same runs over a list that is fixed or only grows, started from any
\* persisted cursor (also one left behind by an earlier, longer list), with
\* runs that keep being started and completed.
InitCursorGrow ==
    /\ url_file = [exists |-> TRUE, lines |-> <<1>>]
    /\ state_file \in {NoStateFile, CorruptStateFile}
                      \cup {[exists |-> TRUE, valid |-> TRUE, json |-> "object",
                             current_index |-> c] :
                              c \in 0..MaxLines}
    /\ pc = "idle"
    /\ batch_size = 1
    /\ partition = NoPartition
    /\ last_inc = [wrote |-> FALSE, n |-> 0]
    /\ win = NoWindow
    /\ StoreAtRest
    /\ RunAtRest

NextCursorGrow ==
    \/ RunCursor
    \/ AppendUrl
    \/ AppendBlankLine

FairSpecCursorGrow ==
    InitCursorGrow /\ [][NextCursorGrow]_vars /\ WF_vars(RunCursor)

\* =====================================================================
\* Claims about the merge-upsert store
\* =====================================================================
\* The two frames _upsert_and_save concatenates, and the rows with a key
NewRows == Normalised(BatchFrame(processed_batch))
OldRows == Normalised(existing_df)
RowsOf(rows, k) == {i \in 1..Len(rows) : rows[i].p4n_id = k}
SavedPrimary == spc = "saved" /\ last_save.path = "primary"
\* the non-empty keys a dataset file holds, as trimmed text
CellKeys(f) ==
    {Strip(f.rows[i].p4n_id) : i \in 1..Len(f.rows)} \ {<<>>, NanText}

\* C1 (as claimed): after a save that completed on the primary path, for
\* every key that occurs in the snapshot and in the batch the file holds
\* exactly one row, and it is the one with the greater last_scraped, also
\* when that is the row of the snapshot.
C1_RecencyWins ==
    SavedPrimary =>
        \A i \in 1..Len(NewRows), j \in 1..Len(OldRows) :
            (NewRows[i].p4n_id = OldRows[j].p4n_id) =>
                LET K == NewRows[i].p4n_id
                    newest == IF OldRows[j].last_scraped > NewRows[i].last_scraped
                              THEN OldRows[j] ELSE NewRows[i]
                IN  /\ Cardinality(RowsOf(csv_file.rows, K)) = 1
                    /\ \A r \in RowsOf(csv_file.rows, K) :
                          /\ csv_file.rows[r].last_scraped = newest.last_scraped
                          /\ csv_file.rows[r].content = newest.content

\* C2 (as claimed): whatever path the saves ended on, the dataset file never
\* holds two rows with the same non-empty p4n_id.
C2_KeyUniqueness ==
    \A i, j \in 1..Len(csv_file.rows) :
        (i # j /\ csv_file.rows[i].p4n_id # <<>>)
            => csv_file.rows[i].p4n_id # csv_file.rows[j].p4n_id

C4_NoKeyLost ==
    (SavedPrimary /\ processed_batch # <<>>)
        => CellKeys(csv_file) =
              CellKeys(file_before) \cup {NewRows[i].p4n_id : i \in 1..Len(NewRows)}

\* C5 (as claimed): when the primary path of a save has raised, the save does
\* not raise to its caller and every row of the batch is in the file.
C5_FallbackSafety ==
    (spc = "saved" /\ last_save.path \in {"fallback", "raised", "lost"})
        => /\ last_save.path # "raised"
           /\ \A i \in 1..Len(processed_batch) :
                 \E r \in 1..Len(csv_file.rows) :
                     csv_file.rows[r] = FallbackRows(processed_batch)[i]

\* C6 (as claimed): a save with the batch the previous process saved (same
\* keys, timestamps and content), after reloading the file, leaves the file
\* as the first save left it, with exactly one row per key of the batch.
C6_Idempotence ==
    (spc = "saved" /\ repeated)
        => /\ csv_file = file_before
           /\ \A i \in 1..Len(NewRows) :
                 Cardinality(RowsOf(csv_file.rows, NewRows[i].p4n_id)) = 1

\* C7: in the merge, a row of the snapshot whose key was read as an integer
\* and a row of the batch whose key is the same digits as a string, blanks
\* around it or not, are one key: the file holds exactly one row for it, the
\* one of the batch.
C7_KeyNormalisation ==
    SavedPrimary =>
        \A i \in 1..Len(processed_batch), j \in 1..Len(existing_df) :
            (/\ existing_df[j].p4n_id.ty = "int"
             /\ Strip(processed_batch[i].p4n_id) = existing_df[j].p4n_id.s)
                => /\ Cardinality(RowsOf(csv_file.rows, existing_df[j].p4n_id.s)) = 1
                   /\ \A r \in RowsOf(csv_file.rows, existing_df[j].p4n_id.s) :
                         /\ csv_file.rows[r].content = processed_batch[i].content
                         /\ csv_file.rows[r].last_scraped = processed_batch[i].last_scraped

\* C7 witness: a save has merged a batch key with a blank before its digits
\* into a snapshot that holds the same digits as an integer, written by an
\* earlier run.
C7_Witness ==
    /\ SavedPrimary
    /\ \E i \in 1..Len(processed_batch), j \in 1..Len(existing_df) :
          /\ existing_df[j].p4n_id.ty = "int"
          /\ processed_batch[i].p4n_id # existing_df[j].p4n_id.s
          /\ Strip(processed_batch[i].p4n_id) = existing_df[j].p4n_id.s
          /\ processed_batch[i].last_scraped # existing_df[j].last_scraped
          /\ Cardinality(RowsOf(csv_file.rows, existing_df[j].p4n_id.s)) = 1

\* =====================================================================
\* Claims about the partition cursor
\* =====================================================================
Range(q) == {q[i] : i \in 1..Len(q)}

\* C8 (as claimed): over a window of N consecutive completed runs with
\* batch_size 1 on a list of N URLs, whatever cursor value the first run
\* found, the cursor stored by the last run is the start index the first run
\* served from, and every list index was served exactly once.
C8_Wraparound ==
    (win.n >= 1 /\ win.runs = win.n /\ win.b = 1)
        => /\ win.c1 = StartIdx(win.c0, win.n)
           /\ \A i \in 1..win.n : win.served[i] = 1

\* The part of C8 the code keeps: the same, for a first run that found a
\* cursor inside the list.
C8_WraparoundInRange ==
    (win.n >= 1 /\ win.runs = win.n /\ win.b = 1 /\ win.c0 < win.n)
        => /\ win.c1 = win.c0
           /\ \A i \in 1..win.n : win.served[i] = 1

\* C9: every URL of a fixed or growing list is eventually returned by
\* get_next_partition, for every batch size and every persisted cursor value,
\* as long as queue-mode runs keep completing.
C9_Coverage ==
    \A u \in 1..MaxLines :
        (u \in Range(Urls(url_file))) ~> (pc = "loaded" /\ u \in Range(partition.urls))

\* C9 witness: after completed runs, the last URL of a list that has grown is
\* the one being served.
C9_Witness ==
    /\ pc = "loaded"
    /\ partition.total >= 3
    /\ win.runs >= 1
    /\ partition.urls[1] = Urls(url_file)[Len(Urls(url_file))]

\* C10: after an increment_state that wrote the state file, the stored
\* current_index is at least 0 and less than the number of non-blank lines the
\* call read.
C10_CursorRange ==
    (pc = "advanced" /\ last_inc.wrote)
        => /\ state_file.exists /\ state_file.valid
           /\ 0 <= state_file.current_index
           /\ state_file.current_index < last_inc.n

\* C10 witness: a write that wrapped: the cursor found was the last index, or
\* beyond the list, and the stored one is inside the list.
C10_Witness ==
    /\ pc = "advanced"
    /\ last_inc.wrote
    /\ last_inc.n >= 2
    /\ state_file.current_index < partition.position - 1 + batch_size
    /\ state_file.current_index < last_inc.n

\* =====================================================================
\* Claims about a run
\* =====================================================================
AllTasks == 1..Len(tasks)
NoTaskRaised == \A i \in AllTasks : tasks[i].st # "raised"

SnapshotRows(id) == {j \in 1..Len(existing_df) : existing_df[j].p4n_id.s = id}
StaleAsClaimed(id) ==
    \/ opts.force
    \/ SnapshotRows(id) = {}
    \/ \E j \in SnapshotRows(id) :
          \/ existing_df[j].last_scraped = NaT
          \/ now - existing_df[j].last_scraped >= STALENESS_DAYS
FilterDone == stage \in {"gather", "save", "summary"}
C13_AllFreshNoOp ==
    (/\ FilterDone
     /\ ~opts.force
     /\ \A i \in 1..Len(discovered) : ~StaleAsClaimed(discovered[i].id))
    => /\ tasks = <<>>
       /\ processed_batch = <<>>
       /\ stats.read = 0
       /\ LoadExisting(csv_file) = existing_df
       /\ spc = "saved" => csv_file = file_before
\* C13: such a run over two fresh candidates has gone through its merge step.
C13_Witness ==
    /\ spc = "saved"
    /\ ~opts.force
    /\ Len(discovered) = 2
    /\ \A i \in 1..Len(discovered) : ~StaleAsClaimed(discovered[i].id)
    /\ csv_file.exists
    /\ csv_file = file_before

\* C14: an item whose feedback count is below MIN_REVIEWS_THRESHOLD is
\* discarded: no enrichment call is made for it, it stores no row, and
\* discarded_low_feedback counts it. An item at or above the threshold is not
\* discarded, and once its fields are read analyze_with_ai has been called
\* for it exactly once: the calls counted are at least the items that reached
\* the enrichment and at most the items that passed the gate.
Calls == stats.gemini_flash_calls + stats.gemini_lite_calls
CountRead(i) == tasks[i].st \in {"discarded", "gated", "enriching", "enriched", "stored"}
ReachedEnrichment(i) == tasks[i].st \in {"enriching", "enriched", "stored"}
PassedGate(i) == tasks[i].count >= MIN_REVIEWS_THRESHOLD
BatchRows(id) == {j \in 1..Len(processed_batch) : processed_batch[j].p4n_id = id}
C14_QualityGate ==
    /\ \A i \in AllTasks :
          /\ CountRead(i) =>
                (tasks[i].st = "discarded" <=> tasks[i].count < MIN_REVIEWS_THRESHOLD)
          /\ tasks[i].st = "discarded" =>
                /\ tasks[i].attempt = 0
                /\ tasks[i].ai = "none"
                /\ BatchRows(tasks[i].id) = {}
          /\ tasks[i].st = "gated" => tasks[i].attempt = 0
    /\ stats.discarded_low_feedback =
          Cardinality({i \in AllTasks : tasks[i].st = "discarded"})
    /\ Calls >= Cardinality({i \in AllTasks : ReachedEnrichment(i)})
    /\ Calls <= Cardinality({i \in AllTasks : PassedGate(i) /\ tasks[i].st # "gated"})
\* C14: of two items of a run, the one below the threshold has been
\* discarded and the one at the threshold enriched by one call and stored.
C14_Witness ==
    \E i, j \in AllTasks :
        /\ tasks[i].st = "discarded"
        /\ tasks[i].count = MIN_REVIEWS_THRESHOLD - 1
        /\ tasks[j].st = "stored"
        /\ tasks[j].count = MIN_REVIEWS_THRESHOLD
        /\ Calls = 1
        /\ stats.discarded_low_feedback = 1

\* C15 (as claimed): analyze_with_ai never issues more than
\* MAX_GEMINI_RETRIES requests; and when every response was unparseable or a
\* transient error, the call has issued exactly MAX_GEMINI_RETRIES requests,
\* has returned the empty result without raising, and has incremented
\* gemini_errors exactly once.
LoopLeft(i) == tasks[i].attempt >= 1 /\ tasks[i].st # "enriching"
C15_RetryBound ==
    \A i \in AllTasks :
        /\ tasks[i].attempt <= MAX_GEMINI_RETRIES
        /\ (LoopLeft(i) /\ tasks[i].bad) =>
              /\ tasks[i].attempt = MAX_GEMINI_RETRIES
              /\ tasks[i].ai = "empty"
              /\ stats.gemini_errors = 1

\* C16 (as claimed): a response that parses as JSON but is not an object of
\* the expected shape (a top-level array) is not accepted: analyze_with_ai
\* does not hand it to extract_atomic as ai_data.
C16_SchemaValidation ==
    \A i \in AllTasks : tasks[i].ai # "malformed"

\* C17 (as claimed): when the merge step of a run persisted its batch on
\* neither the primary nor the fallback path, the cursor is not advanced and
\* the state file is as the run found it.
C17_AdvanceAfterPersist ==
    last_save.path \in {"lost", "raised"} =>
        (pc # "advanced" /\ state_file = NoStateFile)

\* C18: a run that takes its targets from a URL list that is missing or has
\* no non-blank line gets the empty partition, starts no extraction, stores
\* no row, leaves the dataset file as it found it and does not write the
\* state file.
NoUrl == ~url_file.exists \/ \A k \in 1..Len(url_file.lines) : url_file.lines[k] = 0
C18_EmptyPartition ==
    (FromQueue /\ pc \in {"loaded", "advanced"} /\ NoUrl)
    => /\ partition.urls = <<>>
       /\ discovered = <<>>
       /\ tasks = <<>>
       /\ processed_batch = <<>>
       /\ LoadExisting(csv_file) = existing_df
       /\ spc = "saved" => csv_file = file_before
       /\ state_file = NoStateFile
       /\ ~last_inc.wrote
\* C18: a queue run over a missing URL list and an existing dataset has come
\* to its end.
C18_Witness ==
    /\ opts.mode = "queue"
    /\ pc = "advanced"
    /\ ~url_file.exists
    /\ csv_file.exists
    /\ summary.printed
    /\ state_file = NoStateFile

\* C19 (as claimed): whatever items fail or are discarded, the run is not
\* halted: unless its merge step raised, start() does not end with an
\* exception before the merge step, the summary and the cursor advance.
C19_FailuresNeverHalt ==
    (/\ \E i \in AllTasks : tasks[i].st \in {"raised", "failed", "discarded"}
     /\ last_save.path # "raised")
    => stage # "crashed"

\* C20 (as claimed): an item for which analyze_with_ai returned the empty
\* result stores no row, and no row of the dataset file is one built from an
\* empty ai_data.
C20_NoRowFromEmptyEnrichment ==
    /\ \A i \in AllTasks : tasks[i].ai = "empty" => tasks[i].st # "stored"
    /\ \A j \in 1..Len(csv_file.rows) : csv_file.rows[j].content # BarePage(now)

\* C21: at most CONCURRENCY_LIMIT coroutines of extract_atomic are inside
\* the section the semaphore guards, and at most CONCURRENCY_LIMIT requests
\* of analyze_with_ai are in flight.
InSection == {i \in AllTasks : tasks[i].st \in InsideSemaphore}
InFlight == {i \in AllTasks : tasks[i].st = "enriching"}
C21_ConcurrencyCap ==
    /\ Cardinality(InSection) <= CONCURRENCY_LIMIT
    /\ Cardinality(InFlight) <= CONCURRENCY_LIMIT
\* C21: CONCURRENCY_LIMIT requests are in flight while another scheduled
\* coroutine waits for the semaphore.
C21_Witness ==
    /\ Cardinality(InFlight) = CONCURRENCY_LIMIT
    /\ \E i \in AllTasks : tasks[i].st = "created"

\* C22: outside dev mode a coroutine that fails, even before its try, does
\* not keep the other scheduled coroutines from running to their end: when
\* the merge has read the batch, every scheduled coroutine has ended.
C22_FailureIsolation ==
    (opts.mode # "dev" /\ spc = "saved")
        => \A i \in AllTasks : tasks[i].st \in Terminal

\* C23: in dev mode stats.read is the length of the processed batch and
\* never exceeds DEV_LIMIT, and once it has reached DEV_LIMIT no extraction
\* is scheduled and no scheduled coroutine starts to scrape.
DevWithin ==
    opts.mode = "dev"
        => /\ stats.read <= DEV_LIMIT
           /\ stats.read = Len(processed_batch)
DevStops ==
    (opts.mode = "dev" /\ stats.read >= DEV_LIMIT)
        => /\ Len(tasks') = Len(tasks)
           /\ \A i \in AllTasks :
                 (tasks[i].st = "created" /\ tasks'[i].st # "created")
                     => tasks'[i].st = "returned"
C23_DevLimit == [](DevWithin) /\ [][DevStops]_vars
\* C23: a dev run over two stale candidates has stored the row of the first
\* and has left the loop with the second candidate never scheduled.
C23_Witness ==
    /\ opts.mode = "dev"
    /\ stats.read = DEV_LIMIT
    /\ Len(processed_batch) = DEV_LIMIT
    /\ Pending # {}
    /\ stage = "gather"

\* C24: logging never fails the pipeline: whether or not the log file can be
\* written, an extraction that has built its row and makes the first log call
\* of its process ends with the row appended to the batch.
C24_LogNeverFails ==
    [][(spc = "running" /\ spc' = "running" /\ ~log_initialized /\ log_initialized')
          => Len(processed_batch') = Len(processed_batch) + 1]_vars

\* C25: the log is truncated once per process and appended to afterwards:
\* while a process whose only log calls stored its rows is running, the log
\* holds one STORED_ROW entry per row of the batch and nothing else.
C25_LogTruncateOnce ==
    (spc = "running" /\ Len(processed_batch) >= 1)
        => log_file = [i \in 1..Len(processed_batch) |-> "STORED_ROW"]

\* C26: when a process is killed before its save has ended, the dataset
\* file is either the file the process found or the complete merged result,
\* never a part of it.
C26_InterruptionSafe ==
    (spc = "killed" /\ last_save.path = "interrupted")
        => \/ csv_file = file_before
           \/ csv_file = [exists |-> TRUE, header |-> TRUE,
                          rows |-> CsvRows(Merge(processed_batch, existing_df))]

\* C27: from one write of the dataset to the next the last_scraped stored
\* for a key never decreases: a key that has one row in the file a save
\* found and one row in the file it wrote has no earlier last_scraped there.
C27_TimestampMonotone ==
    SavedPrimary =>
        \A i \in 1..Len(file_before.rows), j \in 1..Len(csv_file.rows) :
            LET K == file_before.rows[i].p4n_id
            IN  (/\ csv_file.rows[j].p4n_id = K
                 /\ Cardinality(RowsOf(file_before.rows, K)) = 1
                 /\ Cardinality(RowsOf(csv_file.rows, K)) = 1)
                    => csv_file.rows[j].last_scraped >= file_before.rows[i].last_scraped

\* C28: the index increment_state stores is (s + b) mod N, with s the start
\* index get_next_partition served from in the same run (0 when the stored
\* index was not below N), b the batch size and N the length of the list.
C28_StoredFromStart ==
    (pc = "advanced" /\ last_inc.wrote /\ partition.total = last_inc.n)
        => state_file.current_index
              = ((partition.position - 1) + batch_size) % last_inc.n

\* C29: with a state file that is absent or corrupt (unparseable, or
\* parseable without being an object with an integer current_index), neither
\* get_next_partition nor increment_state fails: no run ends in an exception
\* of one of them.
C29_CorruptStateTolerated == pc # "raised"

\* C30: a call of analyze_with_ai that has issued a request and has left the
\* attempt loop without a parsed answer has returned the empty result, with
\* one GEMINI_ERROR entry logged and gemini_errors incremented by one.
C30_ErrorEndsEmpty ==
    \A i \in AllTasks :
        (/\ tasks[i].attempt >= 1
         /\ tasks[i].st # "enriching"
         /\ tasks[i].ai \notin {"object", "malformed"})
            => /\ tasks[i].ai = "empty"
               /\ stats.gemini_errors = 1
               /\ Cardinality({n \in 1..Len(log_file) :
                                 log_file[n] = "GEMINI_ERROR"}) = 1

\* C31: every call of analyze_with_ai uses the higher-capacity model exactly
\* when the item has more than REVIEW_COUNT_THRESHOLD recent reviews, and it
\* adds one to exactly one of gemini_flash_calls and gemini_lite_calls,
\* however many requests it issues.
Invoked == {i \in AllTasks : tasks[i].model # "none"}
C31_ModelDispatch ==
    /\ \A i \in Invoked :
          tasks[i].model = "flash" <=> tasks[i].reviews > REVIEW_COUNT_THRESHOLD
    /\ stats.gemini_flash_calls
          = Cardinality({i \in Invoked : tasks[i].model = "flash"})
    /\ stats.gemini_lite_calls
          = Cardinality({i \in Invoked : tasks[i].model = "lite"})
\* C31: an item with exactly REVIEW_COUNT_THRESHOLD recent reviews went to
\* the cheaper model, and after MAX_GEMINI_RETRIES requests the call is
\* counted once.
C31_Witness ==
    \E i \in Invoked :
        /\ tasks[i].reviews = REVIEW_COUNT_THRESHOLD
        /\ tasks[i].model = "lite"
        /\ tasks[i].attempt = MAX_GEMINI_RETRIES
        /\ stats.gemini_lite_calls = 1
        /\ stats.gemini_flash_calls = 0

\* C32: every request of a call of analyze_with_ai, the first one and every
\* retry, is preceded by a delay; the delay before the k-th request is
\* AI_DELAY * k, so the delays of one call increase strictly.
C32_Backoff ==
    \A i \in AllTasks :
        /\ Len(tasks[i].delays) = tasks[i].attempt
        /\ \A k \in 1..Len(tasks[i].delays) :
              /\ tasks[i].delays[k] = AI_DELAY * k
              /\ k > 1 => tasks[i].delays[k] > tasks[i].delays[k - 1]
\* C32: a call has issued MAX_GEMINI_RETRIES requests, the last one after
\* the longest delay.
C32_Witness ==
    \E i \in AllTasks :
        /\ tasks[i].attempt = MAX_GEMINI_RETRIES
        /\ tasks[i].delays[MAX_GEMINI_RETRIES] = AI_DELAY * MAX_GEMINI_RETRIES

\* C33: a discard by the quality gate leaves no mark: the step changes
\* neither the dataset nor the cursor, and when the same command is run
\* again after a run that discarded the place, the place is classified stale
\* and scheduled again and, when its page loads, passes the gate again.
Discarding ==
    \E i \in AllTasks :
        /\ i <= Len(tasks')
        /\ tasks[i].st # "discarded"
        /\ tasks'[i].st = "discarded"
AfterDiscard ==
    /\ procs >= 2
    /\ summary.printed
    /\ summary.stats.discarded_low_feedback >= 1
DiscardLeavesNoMark ==
    Discarding => (csv_file' = csv_file /\ state_file' = state_file)
DiscardedIsScheduledAgain ==
    (AfterDiscard /\ stage \notin {"off", "filter"})
        => /\ \A d \in 1..Len(discovered) : discovered[d].verdict = "scheduled"
           /\ Len(tasks) = Len(discovered)
C33_DiscardNotSticky == [](DiscardedIsScheduledAgain) /\ [][DiscardLeavesNoMark]_vars
\* C33: the place one run discarded is discarded by the quality gate of the
\* next run.
C33_Witness ==
    /\ AfterDiscard
    /\ stage = "gather"
    /\ \E i \in AllTasks : tasks[i].st = "discarded"

\* C34: a save that completed on the merge path leaves no row in the
\* dataset whose key, as a string without blanks around it, is empty or
\* "nan": such rows of the batch and of the snapshot are dropped before the
\* write.
EmptyKey(t) == Strip(t) \in {<<>>, NanText}
C34_NoEmptyKey ==
    SavedPrimary =>
        \A r \in 1..Len(csv_file.rows) : ~EmptyKey(csv_file.rows[r].p4n_id)
\* C34: a save on the merge path had a row with an empty key in its batch
\* and a row with a missing key in its snapshot.
C34_Witness ==
    /\ SavedPrimary
    /\ \E i \in 1..Len(processed_batch) : EmptyKey(processed_batch[i].p4n_id)
    /\ \E j \in 1..Len(existing_df) : EmptyKey(existing_df[j].p4n_id.s)

\* C35: when a completed run has persisted a row for a candidate, a later
\* run of the same command without --force, started less than STALENESS_DAYS
\* after it over the same dataset file, classifies the candidate as fresh and
\* does not schedule it.
PersistedRecently(id) ==
    \E r \in 1..Len(csv_file.rows) :
        /\ Strip(csv_file.rows[r].p4n_id) = id
        /\ csv_file.rows[r].last_scraped # NaT
        /\ now - csv_file.rows[r].last_scraped < STALENESS_DAYS
C35_FreshnessRoundTrip ==
    (/\ procs >= 2
     /\ spc = "running"
     /\ summary.printed
     /\ summary.stats.read >= 1
     /\ ~opts.force
     /\ stage \notin {"off", "filter"})
        => \A d \in 1..Len(discovered) :
              PersistedRecently(discovered[d].id) => discovered[d].verdict = "fresh"

\* C36: stats.read is always the length of the processed batch; when a run
\* without --dev has left the candidate loop, discarded_fresh plus the number
\* of scheduled extractions is the number of discovered candidates; read plus
\* discarded_low_feedback never exceeds the number of scheduled extractions;
\* and gemini_errors counts no item the quality gate discarded.
C36_RunAccounting ==
    /\ stats.read = Len(processed_batch)
    /\ (opts.mode # "dev" /\ stage \notin {"off", "filter"})
          => stats.discarded_fresh + Len(tasks) = Len(discovered)
    /\ stats.read + stats.discarded_low_feedback <= Len(tasks)
    /\ stats.gemini_errors
          <= Cardinality({i \in AllTasks : /\ tasks[i].st # "discarded"
                                            /\ tasks[i].model # "none"})
\* C36: a run without --dev over two candidates has printed its summary
\* with one row stored and one item discarded by the quality gate.
C36_Witness ==
    /\ opts.mode \in {"queue", "search"}
    /\ stage = "summary"
    /\ Len(discovered) = 2
    /\ stats.read = 1
    /\ stats.discarded_low_feedback = 1

\* C37 (as claimed): with --force every discovered candidate is scheduled
\* when the candidate loop has been left and discarded_fresh stays 0, while
\* an item whose feedback count is below MIN_REVIEWS_THRESHOLD is still
\* discarded by the quality gate and stores no row.
CandidateLoopLeft == stage \in {"gather", "save", "summary"}
ForcedGateKept ==
    \A i \in AllTasks :
        (CountRead(i) /\ tasks[i].count < MIN_REVIEWS_THRESHOLD)
            => /\ tasks[i].st = "discarded"
               /\ \A j \in 1..Len(processed_batch) :
                     processed_batch[j].p4n_id # tasks[i].id
C37_ForceOnlyStaleness ==
    opts.force =>
        /\ stats.discarded_fresh = 0
        /\ CandidateLoopLeft =>
              \A d \in 1..Len(discovered) : discovered[d].verdict = "scheduled"
        /\ ForcedGateKept

\* C37 (amended): the same, where in a --dev run the candidates after the
\* one whose row reached DEV_LIMIT are left unscheduled.
C37_ForceOnlyStalenessDev ==
    opts.force =>
        /\ stats.discarded_fresh = 0
        /\ CandidateLoopLeft =>
              \A d \in 1..Len(discovered) :
                  \/ discovered[d].verdict = "scheduled"
                  \/ /\ opts.mode = "dev"
                     /\ stats.read >= DEV_LIMIT
                     /\ discovered[d].verdict = "pending"
        /\ ForcedGateKept
\* C37: a forced run has scheduled a candidate whose row in the dataset is
\* fresh, the quality gate has discarded it, and the run has ended without a
\* row.
C37_Witness ==
    /\ opts.force
    /\ stage = "summary"
    /\ processed_batch = <<>>
    /\ \E i \in AllTasks :
          /\ tasks[i].st = "discarded"
          /\ ~IsStale(existing_df, tasks[i].id, FALSE, now)

\* C38: a run started with --dev, --url or --search_url leaves the persisted
\* cursor as it found it: only a queue-mode run calls increment_state and
\* writes the state file.
C38_CursorFrame ==
    /\ [](opts.mode \in {"dev", "single", "search"}
            => (state_file = NoStateFile /\ pc # "advanced" /\ ~last_inc.wrote))
    /\ [][state_file' # state_file => opts.mode = "queue"]_vars
\* C38: a --dev run that asked for its partition and stored a row has
\* printed its summary, and there is still no state file.
C38_Witness ==
    /\ opts.mode = "dev"
    /\ pc = "loaded"
    /\ stage = "summary"
    /\ stats.read >= 1
    /\ state_file = NoStateFile

\* C39: a call of analyze_with_ai that got past the loading of the prompt
\* has logged exactly one SENT_TO_GEMINI entry and, once it has ended,
\* exactly one entry that is either GEMINI_ANSWER, with the parsed answer
\* returned, or GEMINI_ERROR, with the empty result returned and
\* gemini_errors incremented by one; gemini_errors never exceeds the number
\* of calls counted.
Logged(type) == Cardinality({n \in 1..Len(log_file) : log_file[n] = type})
PastPrompt(i) ==
    /\ tasks[i].model # "none"
    /\ ~(tasks[i].ai = "empty" /\ tasks[i].attempt = 0)
C39_EventProtocol ==
    /\ stats.gemini_errors <= Calls
    /\ \A i \in AllTasks :
          PastPrompt(i) =>
              /\ Logged("SENT_TO_GEMINI") = 1
              /\ tasks[i].st # "enriching" =>
                    /\ Logged("GEMINI_ANSWER") + Logged("GEMINI_ERROR") = 1
                    /\ Logged("GEMINI_ANSWER") = 1
                          <=> tasks[i].ai \in {"object", "malformed"}
                    /\ Logged("GEMINI_ERROR") = 1
                          => (tasks[i].ai = "empty" /\ stats.gemini_errors = 1)


====
